---- MODULE Spec2Model ----
(***************************************************************************)
(* A model of the blogging backend's controller (src/src/app.controller.ts)*)
(* over the repository it drives.                                          *)
(*                                                                         *)
(* State: the persisted users and posts, the post id counter, the          *)
(* response of the request that has just been handled, and the ids whose   *)
(* delete has been confirmed.  One action per route.  A handler's pure     *)
(* part is an operator named after the method (signupUser, login, ...)     *)
(* that maps the store and the request to the new store and the outcome;   *)
(* the route's action applies it, the guard first, as one step: a handler  *)
(* runs to completion before the next request is handled.                  *)
(*                                                                         *)
(* Spec      every route, from the empty store.                            *)
(* SpecAuth  register, login and GET /me with every password and salt, and *)
(*           the failed logins recorded.                                   *)
(* SpecList  GET /post over tables of posts with searchable strings.       *)
(* SpecFault the two creating routes with repository calls that reject.    *)
(* SpecRace  publish, update and delete as two steps each, the existence   *)
(*           check and the write, of two requests that interleave.         *)
(*                                                                         *)
(* The services (UserService, PostService) and the AuthGuard are not part  *)
(* of the controller's file; they are modelled by their contract: unique   *)
(* emails (P2002), connect by email and update/delete by id (P2025),       *)
(* ids from a counter, substring search in id order, bearer verification.  *)
(*                                                                         *)
(* Strings that are searched (title, content, searchString) and parsed     *)
(* (skip, take) are sequences of one-character strings; strings that are   *)
(* only compared (email, name, password) are TLA+ strings.                 *)
(***************************************************************************)
EXTENDS Integers, Sequences, FiniteSets, TLC

VARIABLES
    users,       \* the User table, in id order: <<[id, email, name, password]>>
    posts,       \* the Post table: id -> [id, title, content, published, authorId]
    nextPostId,  \* the Post table's autoincrement counter
    resp,        \* the request just handled and its outcome, until delivered
    deleted,     \* history: ids whose DELETE answered with its confirmation
    failedLogins, \* history (SpecAuth): the failed logins seen, by cause
    scenario,    \* history: how far the requests so far follow the scenario
    flight       \* (SpecRace) each concurrent request's place in its handler

vars == <<users, posts, nextPostId, resp, deleted, failedLogins, scenario, flight>>

\* ------------------------------------------------------------------ bounds

\* Posts are created while the id counter is at most MaxPostId.
MaxPostId == 2

\* The posts created in SpecRace.
RacePosts == 1

\* ------------------------------------------------------------ JS values

\* `undefined`: what a handler returns when it falls off its end.
Undefined == [undefined |-> TRUE]

\* An object literal with no keys, {}.
EmptyObject == <<>>

\* The outcome of a handler: a returned value or a thrown HttpException.
Return(value) == [type |-> "return", status |-> 200, message |-> "", value |-> value]

Throw(message, status) ==
    [type |-> "throw", status |-> status, message |-> message, value |-> Undefined]

\* `error instanceof PrismaClientKnownRequestError`, with its code.
KnownRequestError(code) == [known |-> TRUE, code |-> code]

\* No error: the repository call resolved.
NoError == [known |-> FALSE, code |-> ""]

\* An error that is not a PrismaClientKnownRequestError: a lost connection,
\* a TypeError.
OtherError == [known |-> FALSE, code |-> "Error"]

\* The outcome of a handler that lets a rejection of an awaited call pass:
\* the caller gets the framework's 500, not an HttpException of the handler.
Uncaught(error) ==
    [type |-> "uncaught", status |-> 500, message |-> "Internal server error",
     value |-> Undefined, error |-> error]

\* JavaScript's truthiness of a string: every string but "" is truthy.
Truthy(str) == Len(str) > 0

DigitValue ==
    ("0" :> 0) @@ ("1" :> 1) @@ ("2" :> 2) @@ ("3" :> 3) @@ ("4" :> 4) @@
    ("5" :> 5) @@ ("6" :> 6) @@ ("7" :> 7) @@ ("8" :> 8) @@ ("9" :> 9)

\* Number(str) of a string of decimal digits (what @IsNumberString lets through).
RECURSIVE Number(_)
Number(str) ==
    IF Len(str) = 0 THEN 0
    ELSE 10 * Number([k \in 1..(Len(str) - 1) |-> str[k]])
         + DigitValue[str[Len(str)]]

\* String.prototype.includes / SQL LIKE '%sub%': sub occurs in str.
Contains(str, sub) ==
    \E i \in 0..(Len(str) - Len(sub)) :
        \A k \in 1..Len(sub) : str[i + k] = sub[k]

\* ---------------------------------------------------------------- bcrypt

BcryptRounds == 12

\* bcrypt.hash(plaintext, rounds): a digest that carries its salt and cost.
Hash(plaintext, salt) ==
    [alg |-> "bcrypt", rounds |-> BcryptRounds, salt |-> salt,
     digest |-> <<salt, BcryptRounds, plaintext>>]

\* bcrypt.compare(plaintext, hash): re-hash with the digest's own salt and cost.
Compare(plaintext, hash) ==
    hash.digest = <<hash.salt, hash.rounds, plaintext>>

\* ------------------------------------------------------------ JwtService

SigningKey == "secret"

\* jwtService.signAsync(payload): the payload signed with the configured key.
SignAsync(payload) == [payload |-> payload, sig |-> SigningKey]

NoPayload == [sub |-> 0, email |-> "", name |-> ""]

\* What a request presents in its Authorization header: nothing, or a bearer
\* token, which is stale once its expiry has passed.
NoCred == [present |-> FALSE, token |-> [payload |-> NoPayload, sig |-> ""],
           stale |-> FALSE]

Bearer(token, stale) == [present |-> TRUE, token |-> token, stale |-> stale]

\* jwtService.verifyAsync: the signature is the configured key's and the
\* token has not expired.
VerifyAsync(cred) ==
    cred.present /\ cred.token.sig = SigningKey /\ ~cred.stale

\* ----------------------------------------------------------- UserService

NoUser == [id |-> 0, email |-> "", name |-> "", password |-> Hash("", "")]

\* userService.findUser({email}): the user with that email, or null (NoUser).
UserServiceFindUser(us, email) ==
    IF \E i \in 1..Len(us) : us[i].email = email
    THEN us[CHOOSE i \in 1..Len(us) : us[i].email = email]
    ELSE NoUser

\* userService.createUser(data): email is unique; a violation rejects with
\* P2002 and writes nothing.
UserServiceCreateUser(us, data) ==
    IF UserServiceFindUser(us, data.email) # NoUser
    THEN [error |-> KnownRequestError("P2002"), users |-> us, user |-> NoUser]
    ELSE LET user == [id |-> Len(us) + 1, email |-> data.email,
                      name |-> data.name, password |-> data.password]
         IN [error |-> NoError, users |-> Append(us, user), user |-> user]

\* ------------------------------------------------------------- AuthGuard

\* Fault: deletePost without its @UseGuards(AuthGuard).
UseGuardsWithoutDelete ==
    {"getCurrentUser", "createPostDraft", "publishPost", "getPostById",
     "getPosts", "updatePost"}

\* The handlers decorated with @UseGuards(AuthGuard).
UseGuards ==
    {"getCurrentUser", "createPostDraft", "publishPost", "getPostById",
     "getPosts", "updatePost", "deletePost"}

\* AuthGuard.canActivate for a handler: unguarded, or the token verifies.
CanActivate(handler, cred) ==
    handler \notin UseGuards \/ VerifyAsync(cred)

Unauthorized == Throw("Unauthorized", 401)

\* ------------------------------------------------------------ controller

DuplicateMessage ==
    "Email or contact number already exist, please provide another one"

\* Fault: the catch block answers every error with the server error.
SignupCatchServerError(error) == Throw("Something went wrong", 500)

\* signupUser's catch block.
SignupCatch(error) ==
    IF error.known
    THEN IF error.code = "P2002"
         THEN Throw(DuplicateMessage, 404)
         ELSE Return(Undefined)
    ELSE Throw("Something went wrong", 500)

\* Fault: a register of a stored email deletes the stored record and creates
\* the user anew.
signupUserReplace(us, userData, salt) ==
    LET hashedPassword == Hash(userData.password, salt)
        kept == {i \in 1..Len(us) : us[i].email # userData.email}
        rank(i) == Cardinality({j \in kept : j < i})
        others == [k \in 1..Cardinality(kept) |->
                     us[CHOOSE i \in kept : rank(i) = k - 1]]
        user == [id |-> Len(us) + 1, email |-> userData.email,
                 name |-> userData.name, password |-> hashedPassword]
    IN [users |-> Append(others, user),
        out |-> Return([statusCode |-> 200,
                        data |-> [email |-> user.email, id |-> user.id,
                                  name |-> user.name]])]

\* Fault: the created record is returned whole.
signupUserWholeRecord(us, userData, salt) ==
    LET hashedPassword == Hash(userData.password, salt)
        created == UserServiceCreateUser(us, [email |-> userData.email,
                                   name |-> userData.name,
                                   password |-> hashedPassword])
    IN IF created.error = NoError
       THEN [users |-> created.users,
             out |-> Return([statusCode |-> 200, data |-> created.user])]
       ELSE [users |-> created.users, out |-> SignupCatch(created.error)]

\* POST /register
signupUser(us, userData, salt) ==
    LET hashedPassword == Hash(userData.password, salt)
        created == UserServiceCreateUser(us, [email |-> userData.email,
                                   name |-> userData.name,
                                   password |-> hashedPassword])
    IN IF created.error = NoError
       THEN [users |-> created.users,
             out |-> Return([statusCode |-> 200,
                             data |-> [email |-> created.user.email,
                                       id |-> created.user.id,
                                       name |-> created.user.name]])]
       ELSE [users |-> created.users, out |-> SignupCatch(created.error)]

\* Fault: email and name change places in the signed claims.
LoginPayloadSwapped(user) ==
    [sub |-> user.id, email |-> user.name, name |-> user.email]

\* The claims login signs.
LoginPayload(user) ==
    [sub |-> user.id, email |-> user.email, name |-> user.name]

\* Fault: an unknown email is told apart from a wrong password.
loginLeaky(us, body) ==
    LET user == UserServiceFindUser(us, body.email)
    IN IF user = NoUser
       THEN Throw("User not found", 404)
       ELSE IF ~Compare(body.password, user.password)
       THEN Throw("Invalid email or password", 401)
       ELSE Return([statusCode |-> 200,
                    data |-> [accessToken |->
                                [payload |-> [sub |-> user.id, email |-> user.email,
                                              name |-> user.name],
                                 sig |-> SigningKey]]])

\* POST /login
login(us, body) ==
    LET user == UserServiceFindUser(us, body.email)
    IN IF user = NoUser \/ ~Compare(body.password, user.password)
       THEN Throw("Invalid email or password", 401)
       ELSE Return([statusCode |-> 200,
                    data |-> [accessToken |-> SignAsync(LoginPayload(user))]])

\* GET /me
getCurrentUser(cred) == Return(cred.token.payload)


\* ----------------------------------------------------------- PostService

NoPost == [id |-> 0, title |-> <<>>, content |-> <<>>, published |-> FALSE,
           authorId |-> 0]

\* postService.post({id}): the post with that id, or null (NoPost).
PostServicePost(ps, where) ==
    IF where.id \in DOMAIN ps THEN ps[where.id] ELSE NoPost

\* postService.createPost(data): the author is connected by email; without
\* such a user the create rejects with P2025 and writes nothing.  The new
\* post takes the next id and the column default published = false.
PostServiceCreatePost(ps, us, next, data) ==
    LET author == UserServiceFindUser(us, data.author.connect.email)
    IN IF author = NoUser
       THEN [error |-> KnownRequestError("P2025"), posts |-> ps,
             nextPostId |-> next, post |-> NoPost]
       ELSE LET post == [id |-> next, title |-> data.title,
                         content |-> data.content, published |-> FALSE,
                         authorId |-> author.id]
            IN [error |-> NoError, posts |-> ps @@ (next :> post),
                nextPostId |-> next + 1, post |-> post]

\* postService.updatePost({where, data}): the fields data names are
\* overwritten, the others kept; a missing record rejects with P2025.
PostServiceUpdatePost(ps, where, data) ==
    IF where.id \notin DOMAIN ps
    THEN [error |-> KnownRequestError("P2025"), posts |-> ps, post |-> NoPost]
    ELSE LET old == ps[where.id]
             post == [f \in DOMAIN old |->
                        IF f \in DOMAIN data THEN data[f] ELSE old[f]]
         IN [error |-> NoError, posts |-> [ps EXCEPT ![where.id] = post],
             post |-> post]

\* postService.deletePost({id}): the record is removed; a missing one
\* rejects with P2025.
PostServiceDeletePost(ps, where) ==
    IF where.id \notin DOMAIN ps
    THEN [error |-> KnownRequestError("P2025"), posts |-> ps, post |-> NoPost]
    ELSE [error |-> NoError,
          posts |-> [i \in DOMAIN ps \ {where.id} |-> ps[i]],
          post |-> ps[where.id]]

\* A `where` of findMany holds for a post: {} for every post, {OR: [...]}
\* when one of its clauses {field: {contains}} does.
WhereHolds(where, post) ==
    "OR" \notin DOMAIN where
    \/ \E k \in 1..Len(where.OR) :
         \A f \in DOMAIN where.OR[k] :
            Contains(post[f], where.OR[k][f].contains)

\* The ids of a set in ascending order.
RECURSIVE Ascending(_)
Ascending(ids) ==
    IF ids = {} THEN <<>>
    ELSE LET least == CHOOSE i \in ids : \A j \in ids : i <= j
         IN <<least>> \o Ascending(ids \ {least})

\* postService.posts({skip, take, where}): the posts where holds for, in id
\* order, without the first skip of them and cut to take of them.
PostServicePosts(ps, params) ==
    LET ids == Ascending({i \in DOMAIN ps : WhereHolds(params.where, ps[i])})
        found == [k \in 1..Len(ids) |-> ps[ids[k]]]
        skip == IF "skip" \in DOMAIN params THEN params.skip ELSE 0
        rest == [k \in 1..(Len(found) - skip) |-> found[skip + k]]
    IN IF "take" \in DOMAIN params /\ params.take < Len(rest)
       THEN [k \in 1..params.take |-> rest[k]]
       ELSE rest

\* ------------------------------------------------------ controller, posts

\* Fault: the catch block tests for the unique-constraint code.
CreatePostDraftCatchP2002(error) ==
    IF error.known /\ error.code = "P2002"
    THEN Throw("Author not found", 404)
    ELSE Return(Undefined)

\* createPostDraft's catch block.
CreatePostDraftCatch(error) ==
    IF error.known /\ error.code = "P2025"
    THEN Throw("Author not found", 404)
    ELSE Return(Undefined)

\* Fault: the author connected is the first user, not the one whose email
\* the body names.
createPostDraftFirstUser(ps, us, next, postData) ==
    LET email == IF us = <<>> THEN postData.authorEmail ELSE us[1].email
        created == PostServiceCreatePost(ps, us, next,
                     [title |-> postData.title, content |-> postData.content,
                      author |-> [connect |-> [email |-> email]]])
    IN [posts |-> created.posts, nextPostId |-> created.nextPostId,
        out |-> IF created.error = NoError
                THEN Return([statusCode |-> 200, data |-> created.post])
                ELSE CreatePostDraftCatch(created.error)]

\* POST /post
createPostDraft(ps, us, next, postData) ==
    LET created == PostServiceCreatePost(ps, us, next,
                     [title |-> postData.title, content |-> postData.content,
                      author |-> [connect |-> [email |-> postData.authorEmail]]])
    IN [posts |-> created.posts, nextPostId |-> created.nextPostId,
        out |-> IF created.error = NoError
                THEN Return([statusCode |-> 200, data |-> created.post])
                ELSE CreatePostDraftCatch(created.error)]

PostNotFound == Throw("Post not found", 404)

\* Fault: publishing a published post is refused.
publishPostOnce(ps, params) ==
    LET post == PostServicePost(ps, [id |-> Number(params.id)])
    IN IF post = NoPost
       THEN [posts |-> ps, out |-> Throw("Post not found", 404)]
       ELSE IF post.published
       THEN [posts |-> ps, out |-> Throw("Post already published", 400)]
       ELSE LET updated == PostServiceUpdatePost(ps, [id |-> post.id],
                                                 [published |-> TRUE])
            IN [posts |-> updated.posts, out |-> Return(updated.post)]

\* Fault: publish flips the flag instead of setting it.
publishPostToggle(ps, params) ==
    LET post == PostServicePost(ps, [id |-> Number(params.id)])
    IN IF post = NoPost
       THEN [posts |-> ps, out |-> Throw("Post not found", 404)]
       ELSE LET updated == PostServiceUpdatePost(ps, [id |-> post.id],
                                                 [published |-> ~post.published])
            IN [posts |-> updated.posts, out |-> Return(updated.post)]

\* PUT /post/publish/:id
\* Fault: the published post is returned without being written.
publishPostNoWrite(ps, params) ==
    LET post == PostServicePost(ps, [id |-> Number(params.id)])
    IN IF post = NoPost
       THEN [posts |-> ps, out |-> PostNotFound]
       ELSE [posts |-> ps, out |-> Return([post EXCEPT !.published = TRUE])]

\* Fault: the write has no where clause and publishes every stored post.
publishPostAll(ps, params) ==
    LET post == PostServicePost(ps, [id |-> Number(params.id)])
    IN IF post = NoPost
       THEN [posts |-> ps, out |-> PostNotFound]
       ELSE [posts |-> [i \in DOMAIN ps |-> [ps[i] EXCEPT !.published = TRUE]],
             out |-> Return([post EXCEPT !.published = TRUE])]

publishPost(ps, params) ==
    LET post == PostServicePost(ps, [id |-> Number(params.id)])
    IN IF post = NoPost
       THEN [posts |-> ps, out |-> PostNotFound]
       ELSE LET updated == PostServiceUpdatePost(ps, [id |-> post.id],
                                                 [published |-> TRUE])
            IN [posts |-> updated.posts, out |-> Return(updated.post)]

\* GET /post/:id
\* Fault: the post read is returned without the test for null.
getPostByIdUnchecked(ps, params) ==
    Return([statusCode |-> 200,
            data |-> PostServicePost(ps, [id |-> Number(params.id)])])

getPostById(ps, params) ==
    LET post == PostServicePost(ps, [id |-> Number(params.id)])
    IN IF post = NoPost
       THEN PostNotFound
       ELSE Return([statusCode |-> 200, data |-> post])

\* Fault: take and skip are tested as numbers, so that 0 counts as absent.
GetPostsParamsNumeric(query) ==
    (IF "take" \in DOMAIN query /\ Number(query.take) # 0
     THEN "take" :> Number(query.take) ELSE EmptyObject)
    @@ (IF "skip" \in DOMAIN query /\ Number(query.skip) # 0
        THEN "skip" :> Number(query.skip) ELSE EmptyObject)
    @@ ("where" :>
          IF "searchString" \in DOMAIN query /\ Truthy(query.searchString)
          THEN [OR |-> <<[content |-> [contains |-> query.searchString]],
                         [title |-> [contains |-> query.searchString]]>>]
          ELSE EmptyObject)

\* The argument getPosts builds for postService.posts from the query string.
GetPostsParams(query) ==
    (IF "take" \in DOMAIN query /\ Truthy(query.take)
     THEN "take" :> Number(query.take) ELSE EmptyObject)
    @@ (IF "skip" \in DOMAIN query /\ Truthy(query.skip)
        THEN "skip" :> Number(query.skip) ELSE EmptyObject)
    @@ ("where" :>
          IF "searchString" \in DOMAIN query /\ Truthy(query.searchString)
          THEN [OR |-> <<[content |-> [contains |-> query.searchString]],
                         [title |-> [contains |-> query.searchString]]>>]
          ELSE EmptyObject)

\* GET /post
getPosts(ps, query) == Return(PostServicePosts(ps, GetPostsParams(query)))

\* Fault: the fields the body leaves out are written as empty strings.
updatePostReplace(ps, params, body) ==
    LET post == PostServicePost(ps, [id |-> Number(params.id)])
    IN IF post = NoPost
       THEN [posts |-> ps, out |-> Throw("Post not found", 404)]
       ELSE LET updated == PostServiceUpdatePost(ps, [id |-> post.id],
                             [title |-> IF "title" \in DOMAIN body
                                        THEN body.title ELSE <<>>,
                              content |-> IF "content" \in DOMAIN body
                                          THEN body.content ELSE <<>>])
            IN [posts |-> updated.posts,
                out |-> Return([statusCode |-> 200, data |-> updated.post])]

\* PUT /post/:id
updatePost(ps, params, body) ==
    LET post == PostServicePost(ps, [id |-> Number(params.id)])
    IN IF post = NoPost
       THEN [posts |-> ps, out |-> PostNotFound]
       ELSE LET updated == PostServiceUpdatePost(ps, [id |-> post.id], body)
            IN [posts |-> updated.posts,
                out |-> Return([statusCode |-> 200, data |-> updated.post])]

\* Fault: the confirmation is returned without the repository call.
deletePostUncalled(ps, params) ==
    LET post == PostServicePost(ps, [id |-> Number(params.id)])
    IN IF post = NoPost
       THEN [posts |-> ps, out |-> Throw("Post not found", 404)]
       ELSE [posts |-> ps,
             out |-> Return([statusCode |-> 200,
                             message |-> <<"Successfully deleted post with id ",
                                           params.id>>])]

\* DELETE /post/:id
deletePost(ps, params) ==
    LET post == PostServicePost(ps, [id |-> Number(params.id)])
    IN IF post = NoPost
       THEN [posts |-> ps, out |-> PostNotFound]
       ELSE [posts |-> PostServiceDeletePost(ps, [id |-> Number(params.id)]).posts,
             out |-> Return([statusCode |-> 200,
                             message |-> <<"Successfully deleted post with id ",
                                           params.id>>])]

\* ------------------------------------------- controller, the write steps

\* A handler that reads the post and writes it awaits twice: other requests
\* are handled between its check and its write.  These are the parts after
\* the check, of a request whose check read post.

\* Fault: the write selects the post only while it is a draft.
publishPostWriteIfDraft(ps, post) ==
    IF post.id \in DOMAIN ps /\ ~ps[post.id].published
    THEN LET updated == PostServiceUpdatePost(ps, [id |-> post.id],
                                              [published |-> TRUE])
         IN [posts |-> updated.posts, out |-> Return(updated.post)]
    ELSE [posts |-> ps, out |-> Uncaught(KnownRequestError("P2025"))]

\* publishPost after its check: the update is returned as it settles, no
\* try/catch around it.
publishPostWrite(ps, post) ==
    LET updated == PostServiceUpdatePost(ps, [id |-> post.id],
                                         [published |-> TRUE])
    IN IF updated.error = NoError
       THEN [posts |-> updated.posts, out |-> Return(updated.post)]
       ELSE [posts |-> ps, out |-> Uncaught(updated.error)]

\* updatePost after its check.
updatePostWrite(ps, post, body) ==
    LET updated == PostServiceUpdatePost(ps, [id |-> post.id], body)
    IN IF updated.error = NoError
       THEN [posts |-> updated.posts,
             out |-> Return([statusCode |-> 200, data |-> updated.post])]
       ELSE [posts |-> ps, out |-> Uncaught(updated.error)]

\* deletePost after its check.
deletePostWrite(ps, params) ==
    LET removed == PostServiceDeletePost(ps, [id |-> Number(params.id)])
    IN IF removed.error = NoError
       THEN [posts |-> removed.posts,
             out |-> Return([statusCode |-> 200,
                             message |-> <<"Successfully deleted post with id ",
                                           params.id>>])]
       ELSE [posts |-> ps, out |-> Uncaught(removed.error)]

\* ------------------------------------------------------------------ state

NoResp == [handler |-> "none"]

\* The request a handler was called for (its credential and arguments) and
\* the outcome.
Handled(handler, cred, args, out) ==
    [handler |-> handler, cred |-> cred, args |-> args, out |-> out]

\* The post a handler's existence check read for the :id of a request.
Found(ps, params) == PostServicePost(ps, [id |-> Number(params.id)])

\* The same for a handler that reads a post first: found is what it read.
HandledPost(handler, cred, args, found, out) ==
    [handler |-> handler, cred |-> cred, args |-> args, found |-> found,
     out |-> out]

Idle == resp.handler = "none"

\* The concurrent requests of SpecRace.
Procs == {"p", "q"}

NoFlight == [pc |-> "idle"]

\* The scenario: register a@x.com/pw1, login, create the draft T/C for
\* a@x.com with the token login returned, publish the id create returned,
\* get it by id.  step counts the requests handled so far when they are
\* exactly the scenario's first ones, and is -1 otherwise.
NoToken == [payload |-> NoPayload, sig |-> ""]

ScenarioStart == [step |-> 0, token |-> NoToken, id |-> 0]

ScenarioOff == [step |-> -1, token |-> NoToken, id |-> 0]

Digits == <<"0", "1", "2", "3", "4", "5", "6", "7", "8", "9">>

\* The scenario after the request r has been handled.
ScenarioAfter(sc, r) ==
    IF /\ sc.step = 0
       /\ r.handler = "signupUser"
       /\ r.args.email = "a@x.com" /\ r.args.password = "pw1"
    THEN [sc EXCEPT !.step = 1]
    ELSE IF /\ sc.step = 1
            /\ r.handler = "login"
            /\ r.args = [email |-> "a@x.com", password |-> "pw1"]
    THEN [sc EXCEPT !.step = 2,
                    !.token = IF r.out.type = "return"
                              THEN r.out.value.data.accessToken ELSE NoToken]
    ELSE IF /\ sc.step = 2
            /\ r.handler = "createPostDraft"
            /\ r.cred = Bearer(sc.token, FALSE)
            /\ r.args = [title |-> <<"T">>, content |-> <<"C">>,
                         authorEmail |-> "a@x.com"]
    THEN [sc EXCEPT !.step = 3,
                    !.id = IF r.out.type = "return" /\ "data" \in DOMAIN r.out.value
                           THEN r.out.value.data.id ELSE 0]
    ELSE IF /\ sc.step = 3
            /\ r.handler = "publishPost"
            /\ r.cred = Bearer(sc.token, FALSE)
            /\ r.args = [id |-> <<Digits[sc.id + 1]>>]
    THEN [sc EXCEPT !.step = 4]
    ELSE IF /\ sc.step = 4
            /\ r.handler = "getPostById"
            /\ r.cred = Bearer(sc.token, FALSE)
            /\ r.args = [id |-> <<Digits[sc.id + 1]>>]
    THEN [sc EXCEPT !.step = 5]
    ELSE ScenarioOff

\* Every request handled moves the scenario.
Track == scenario' = ScenarioAfter(scenario, resp')

Init ==
    /\ users = <<>>
    /\ posts = <<>>
    /\ nextPostId = 1
    /\ resp = NoResp
    /\ deleted = {}
    /\ failedLogins = {}
    /\ scenario = ScenarioStart
    /\ flight = [p \in Procs |-> NoFlight]

\* ---------------------------------------------------------------- inputs

Emails == {"a@x.com", "b@x.com"}
Names == {"A"}
Passwords == {"pw1", "pw2"}
Salts == {"s1", "s2"}

\* The credentials a client can present: none, a token signed with another
\* key, and the token of a stored user (login issues it at will), fresh or
\* expired.
Creds(us) ==
    {NoCred}
    \cup {Bearer([payload |-> LoginPayload(us[i]), sig |-> "forged"], FALSE) :
            i \in 1..Len(us)}
    \cup {Bearer(SignAsync(LoginPayload(us[i])), stale) :
            i \in 1..Len(us), stale \in BOOLEAN}

\* The :id parameters requests name: every id the counter can reach.
IdParams == {[id |-> <<Digits[i + 1]>>] : i \in 1..MaxPostId}

\* An object with the keys whose value is given; Absent leaves the key out.
Absent == <<"(absent)">>

Field(key, value) == IF value = Absent THEN EmptyObject ELSE key :> value

PostDatas ==
    {[title |-> <<"T">>, content |-> <<"C">>, authorEmail |-> email] :
        email \in Emails}

UpdateBodies ==
    {Field("title", title) @@ Field("content", content) :
        title \in {Absent, <<"X">>}, content \in {Absent, <<"Y">>}}

Queries ==
    {Field("take", take) @@ Field("searchString", searchString) :
        take \in {Absent, <<"1">>}, searchString \in {Absent, <<"X">>}}

\* --------------------------------------------------------------- actions

\* The guard refuses the request: the handler does not run.
Refuse(handler, cred, args) ==
    /\ resp' = Handled(handler, cred, args, Unauthorized)
    /\ UNCHANGED <<users, posts, nextPostId, deleted>>

RegisterStep(userData, salt) ==
    /\ Idle
    /\ LET r == signupUser(users, userData, salt)
       IN /\ users' = r.users
          /\ resp' = Handled("signupUser", NoCred, userData, r.out)
    /\ UNCHANGED <<posts, nextPostId, deleted>>

LoginStep(body) ==
    /\ Idle
    /\ resp' = Handled("login", NoCred, body, login(users, body))
    /\ UNCHANGED <<users, posts, nextPostId, deleted>>

PostRegister(userData, salt) ==
    RegisterStep(userData, salt) /\ Track /\ UNCHANGED <<failedLogins, flight>>

PostLogin(body) ==
    LoginStep(body) /\ Track /\ UNCHANGED <<failedLogins, flight>>

GetMe(cred) ==
    /\ Idle
    /\ IF CanActivate("getCurrentUser", cred)
       THEN /\ resp' = Handled("getCurrentUser", cred, EmptyObject,
                               getCurrentUser(cred))
            /\ UNCHANGED <<users, posts, nextPostId, deleted>>
       ELSE Refuse("getCurrentUser", cred, EmptyObject)
    /\ Track
    /\ UNCHANGED <<failedLogins, flight>>

PostPost(cred, postData) ==
    /\ Idle
    /\ nextPostId <= MaxPostId
    /\ IF CanActivate("createPostDraft", cred)
       THEN LET r == createPostDraft(posts, users, nextPostId, postData)
            IN /\ posts' = r.posts
               /\ nextPostId' = r.nextPostId
               /\ resp' = Handled("createPostDraft", cred, postData, r.out)
               /\ UNCHANGED <<users, deleted>>
       ELSE Refuse("createPostDraft", cred, postData)
    /\ Track
    /\ UNCHANGED <<failedLogins, flight>>

PutPostPublish(cred, params) ==
    /\ Idle
    /\ IF CanActivate("publishPost", cred)
       THEN LET r == publishPost(posts, params)
            IN /\ posts' = r.posts
               /\ resp' = HandledPost("publishPost", cred, params,
                                      Found(posts, params), r.out)
               /\ UNCHANGED <<users, nextPostId, deleted>>
       ELSE Refuse("publishPost", cred, params)
    /\ Track
    /\ UNCHANGED <<failedLogins, flight>>

GetPostId(cred, params) ==
    /\ Idle
    /\ IF CanActivate("getPostById", cred)
       THEN /\ resp' = HandledPost("getPostById", cred, params,
                                   Found(posts, params),
                                   getPostById(posts, params))
            /\ UNCHANGED <<users, posts, nextPostId, deleted>>
       ELSE Refuse("getPostById", cred, params)
    /\ Track
    /\ UNCHANGED <<failedLogins, flight>>

GetPost(cred, query) ==
    /\ Idle
    /\ IF CanActivate("getPosts", cred)
       THEN /\ resp' = Handled("getPosts", cred, query, getPosts(posts, query))
            /\ UNCHANGED <<users, posts, nextPostId, deleted>>
       ELSE Refuse("getPosts", cred, query)
    /\ Track
    /\ UNCHANGED <<failedLogins, flight>>

PutPost(cred, params, body) ==
    /\ Idle
    /\ IF CanActivate("updatePost", cred)
       THEN LET r == updatePost(posts, params, body)
            IN /\ posts' = r.posts
               /\ resp' = HandledPost("updatePost", cred,
                                      [id |-> params.id, body |-> body],
                                      Found(posts, params), r.out)
               /\ UNCHANGED <<users, nextPostId, deleted>>
       ELSE Refuse("updatePost", cred, [id |-> params.id, body |-> body])
    /\ Track
    /\ UNCHANGED <<failedLogins, flight>>

DeletePost(cred, params) ==
    /\ Idle
    /\ IF CanActivate("deletePost", cred)
       THEN LET r == deletePost(posts, params)
            IN /\ posts' = r.posts
               /\ resp' = HandledPost("deletePost", cred, params,
                                      Found(posts, params), r.out)
               /\ deleted' = IF r.out.type = "return"
                             THEN deleted \cup {Number(params.id)}
                             ELSE deleted
               /\ UNCHANGED <<users, nextPostId>>
       ELSE Refuse("deletePost", cred, params)
    /\ Track
    /\ UNCHANGED <<failedLogins, flight>>

\* The response leaves; the next request is handled.
Deliver ==
    /\ ~Idle
    /\ resp' = NoResp
    /\ UNCHANGED <<users, posts, nextPostId, deleted, failedLogins, scenario,
                   flight>>

Next ==
    \/ \E name \in Names, email \in Emails :
         PostRegister([name |-> name, email |-> email, password |-> "pw1"], "s1")
    \/ \E email \in Emails, password \in Passwords :
         PostLogin([email |-> email, password |-> password])
    \/ \E cred \in Creds(users) : GetMe(cred)
    \/ \E cred \in Creds(users), postData \in PostDatas : PostPost(cred, postData)
    \/ \E cred \in Creds(users), params \in IdParams : PutPostPublish(cred, params)
    \/ \E cred \in Creds(users), params \in IdParams : GetPostId(cred, params)
    \/ \E cred \in Creds(users), query \in Queries : GetPost(cred, query)
    \/ \E cred \in Creds(users), params \in IdParams, body \in UpdateBodies :
         PutPost(cred, params, body)
    \/ \E cred \in Creds(users), params \in IdParams : DeletePost(cred, params)
    \/ Deliver

Spec == Init /\ [][Next]_vars

\* ------------------------------------------- SpecAuth: register and login

\* Registration and login alone, with every password and salt, and with the
\* failed logins recorded by cause: whether the email was registered.
PostLoginObserved(body) ==
    /\ LoginStep(body)
    /\ Track
    /\ UNCHANGED flight
    /\ failedLogins' =
         IF resp'.out.type = "return" THEN failedLogins
         ELSE failedLogins \cup
                {[registered |-> \E i \in 1..Len(users) : users[i].email = body.email,
                  out |-> resp'.out]}

NextAuth ==
    \/ \E name \in Names, email \in Emails, password \in Passwords, salt \in Salts :
         PostRegister([name |-> name, email |-> email, password |-> password], salt)
    \/ \E email \in Emails, password \in Passwords :
         PostLoginObserved([email |-> email, password |-> password])
    \/ \E cred \in Creds(users) : GetMe(cred)
    \/ Deliver

SpecAuth == Init /\ [][NextAuth]_vars

\* ------------------------------------------------ SpecList: GET /post

\* Two registered users, as two registrations leave them.
TwoUsers ==
    signupUser(
        signupUser(<<>>, [name |-> "A", email |-> "a@x.com", password |-> "pw1"],
                   "s1").users,
        [name |-> "A", email |-> "b@x.com", password |-> "pw2"], "s2").users

ListStrings == {<<>>, <<"f", "o", "o">>, <<"a", "f", "o", "o", "d">>, <<"o", "f">>}

\* The tables a run of createPostDraft, publishPost and deletePost requests
\* can leave: any of the ids 1..MaxPostId+1 stored, with titles and contents
\* that do and do not hold the strings searched for.
ListTables ==
    UNION {[ids ->
              {[id |-> 0, title |-> title, content |-> content,
                published |-> published, authorId |-> 1] :
                  title \in ListStrings \ {<<>>},
                  content \in {<<>>, <<"f", "o", "o">>},
                  published \in {FALSE}}] :
           ids \in SUBSET (1..(MaxPostId + 1))}

InitList ==
    /\ users = TwoUsers
    /\ \E table \in ListTables :
         posts = [i \in DOMAIN table |-> [table[i] EXCEPT !.id = i]]
    /\ nextPostId = MaxPostId + 2
    /\ resp = NoResp
    /\ deleted = (1..(MaxPostId + 1)) \ DOMAIN posts
    /\ failedLogins = {}
    /\ scenario = ScenarioOff
    /\ flight = [p \in Procs |-> NoFlight]

ListNumbers == {Absent, <<"0">>, <<"1">>, <<"2">>, <<"1", "0">>}

ListQueries ==
    {Field("skip", skip) @@ Field("take", take)
       @@ Field("searchString", searchString) :
        skip \in ListNumbers, take \in ListNumbers,
        searchString \in {Absent, <<>>, <<"f", "o", "o">>, <<"o", "f">>, <<"z">>}}

NextList ==
    \/ \E cred \in {NoCred, Bearer(SignAsync(LoginPayload(users[1])), FALSE)},
          query \in ListQueries : GetPost(cred, query)
    \/ Deliver

SpecList == InitList /\ [][NextList]_vars

\* ------------------------------------- SpecFault: repository calls reject

\* The rejections of a repository call that are neither the unique
\* violation nor the missing record: a known request error of another code
\* (P2024, the connection pool timed out) and an error of another class.
Faults == {KnownRequestError("P2024"), OtherError}

\* signupUser when the awaited createUser rejects with error: nothing is
\* written and the catch block decides the outcome.
signupUserRejected(us, userData, error) ==
    [users |-> us, out |-> SignupCatch(error)]

\* createPostDraft when the awaited createPost rejects with error.
createPostDraftRejected(ps, next, postData, error) ==
    [posts |-> ps, nextPostId |-> next, out |-> CreatePostDraftCatch(error)]

PostRegisterRejected(userData, error) ==
    /\ Idle
    /\ LET r == signupUserRejected(users, userData, error)
       IN /\ users' = r.users
          /\ resp' = Handled("signupUser", NoCred, userData, r.out)
    /\ Track
    /\ UNCHANGED <<posts, nextPostId, deleted, failedLogins, flight>>

PostPostRejected(cred, postData, error) ==
    /\ Idle
    /\ IF CanActivate("createPostDraft", cred)
       THEN LET r == createPostDraftRejected(posts, nextPostId, postData, error)
            IN /\ posts' = r.posts
               /\ nextPostId' = r.nextPostId
               /\ resp' = Handled("createPostDraft", cred, postData, r.out)
               /\ UNCHANGED <<users, deleted>>
       ELSE Refuse("createPostDraft", cred, postData)
    /\ Track
    /\ UNCHANGED <<failedLogins, flight>>

NextFault ==
    \/ \E name \in Names, email \in Emails :
         PostRegister([name |-> name, email |-> email, password |-> "pw1"], "s1")
    \/ \E name \in Names, email \in Emails, error \in Faults :
         PostRegisterRejected([name |-> name, email |-> email,
                               password |-> "pw1"], error)
    \/ \E cred \in Creds(users), postData \in PostDatas : PostPost(cred, postData)
    \/ \E cred \in Creds(users), postData \in PostDatas, error \in Faults :
         PostPostRejected(cred, postData, error)
    \/ Deliver

SpecFault == Init /\ [][NextFault]_vars

\* ---------------------------------- SpecRace: two requests that interleave

\* A request between its check, which read found, and its write.
Checked(handler, args, found) ==
    [pc |-> "checked", handler |-> handler, args |-> args, found |-> found]

\* A request that ended: missing tells that its write found no record.
Done(handler, args, found, missing, out) ==
    [pc |-> "done", handler |-> handler, args |-> args, found |-> found,
     missing |-> missing, out |-> out]

ValidCreds(us) == {cred \in Creds(us) : VerifyAsync(cred)}

RaceIdParams == {[id |-> <<Digits[i + 1]>>] : i \in 1..RacePosts}

RaceBody == [title |-> <<"X">>]

\* The guard passes and the handler reads the post: it throws at once
\* without one, and awaits its write with one.
Check(handler, args, post) ==
    IF post = NoPost
    THEN Done(handler, args, post, FALSE, PostNotFound)
    ELSE Checked(handler, args, post)

PublishCheck(p, params) ==
    /\ flight[p].pc = "idle"
    /\ \E cred \in ValidCreds(users) : CanActivate("publishPost", cred)
    /\ flight' = [flight EXCEPT ![p] =
                    Check("publishPost", params, Found(posts, params))]
    /\ scenario' = ScenarioOff
    /\ UNCHANGED <<users, posts, nextPostId, resp, deleted, failedLogins>>

UpdateCheck(p, params, body) ==
    /\ flight[p].pc = "idle"
    /\ \E cred \in ValidCreds(users) : CanActivate("updatePost", cred)
    /\ flight' = [flight EXCEPT ![p] =
                    Check("updatePost", [id |-> params.id, body |-> body],
                          Found(posts, params))]
    /\ scenario' = ScenarioOff
    /\ UNCHANGED <<users, posts, nextPostId, resp, deleted, failedLogins>>

DeleteCheck(p, params) ==
    /\ flight[p].pc = "idle"
    /\ \E cred \in ValidCreds(users) : CanActivate("deletePost", cred)
    /\ flight' = [flight EXCEPT ![p] =
                    Check("deletePost", params, Found(posts, params))]
    /\ scenario' = ScenarioOff
    /\ UNCHANGED <<users, posts, nextPostId, resp, deleted, failedLogins>>

\* The write of a checked request, on the posts as they are by then.
Write(p, handler, r) ==
    /\ posts' = r.posts
    /\ flight' = [flight EXCEPT ![p] =
                    Done(handler, flight[p].args, flight[p].found,
                         flight[p].found.id \notin DOMAIN posts, r.out)]
    /\ deleted' = IF handler = "deletePost" /\ r.out.type = "return"
                  THEN deleted \cup {flight[p].found.id}
                  ELSE deleted
    /\ UNCHANGED <<users, nextPostId, resp, failedLogins, scenario>>

PublishWrite(p) ==
    /\ flight[p].pc = "checked"
    /\ flight[p].handler = "publishPost"
    /\ Write(p, "publishPost", publishPostWrite(posts, flight[p].found))

UpdateWrite(p) ==
    /\ flight[p].pc = "checked"
    /\ flight[p].handler = "updatePost"
    /\ Write(p, "updatePost",
             updatePostWrite(posts, flight[p].found, flight[p].args.body))

DeleteWrite(p) ==
    /\ flight[p].pc = "checked"
    /\ flight[p].handler = "deletePost"
    /\ Write(p, "deletePost",
             deletePostWrite(posts, [id |-> flight[p].args.id]))

\* The response of an ended request leaves.
Respond(p) ==
    /\ flight[p].pc = "done"
    /\ flight' = [flight EXCEPT ![p] = NoFlight]
    /\ UNCHANGED <<users, posts, nextPostId, resp, deleted, failedLogins,
                   scenario>>

\* One post is created for the one user; the requests to it interleave.
RaceCreate(cred, postData) ==
    /\ nextPostId <= RacePosts
    /\ PostPost(cred, postData)

NextRace ==
    \/ PostRegister([name |-> "A", email |-> "a@x.com", password |-> "pw1"], "s1")
    \/ \E cred \in ValidCreds(users) :
         RaceCreate(cred, [title |-> <<"T">>, content |-> <<"C">>,
                           authorEmail |-> "a@x.com"])
    \/ Deliver
    \/ \E p \in Procs, params \in RaceIdParams : PublishCheck(p, params)
    \/ \E p \in Procs, params \in RaceIdParams : UpdateCheck(p, params, RaceBody)
    \/ \E p \in Procs, params \in RaceIdParams : DeleteCheck(p, params)
    \/ \E p \in Procs : PublishWrite(p)
    \/ \E p \in Procs : UpdateWrite(p)
    \/ \E p \in Procs : DeleteWrite(p)
    \/ \E p \in Procs : Respond(p)

SpecRace == Init /\ [][NextRace]_vars

\* ---------------------------------------------------------------- claims

\* The request just handled, to a guarded route, passed the guard.
Ran == ~Idle /\ VerifyAsync(resp.cred)

\* The operations the interface lists as requiring authentication.
ProtectedHandlers ==
    {"getCurrentUser", "createPostDraft", "publishPost", "getPostById",
     "getPosts", "updatePost", "deletePost"}

StoredEmails == {users[i].email : i \in 1..Len(users)}

\* The error kinds, as the caller sees them.
IsUnauthenticated(out) == out.type = "throw" /\ out.status = 401

IsDuplicateEmail(out) ==
    /\ out.type = "throw"
    /\ out.status \in 400..499
    /\ out.message = DuplicateMessage

IsAuthorNotFound(out) ==
    out.type = "throw" /\ out.status = 404 /\ out.message = "Author not found"

IsPostNotFound(out) ==
    out.type = "throw" /\ out.status = 404 /\ out.message = "Post not found"

\* C1: a request to a protected operation (GET /me, createDraft, publish,
\* getById, list, update, delete) that carries no valid token is answered by
\* the guard, and the step that handles it leaves the stored users and posts
\* as they were.
C1_GuardBeforeHandler ==
    [][(resp'.handler \in ProtectedHandlers /\ ~VerifyAsync(resp'.cred))
         => /\ IsUnauthenticated(resp'.out)
            /\ users' = users
            /\ posts' = posts
            /\ nextPostId' = nextPostId]_vars

\* C1 happens: a delete of a stored post, without a token, has been refused.
C1_Witness ==
    /\ resp.handler = "deletePost"
    /\ ~resp.cred.present
    /\ IsUnauthenticated(resp.out)
    /\ Number(resp.args.id) \in DOMAIN posts

\* C2: register with an email a stored user has fails with DuplicateEmail, a
\* client error (4xx), and the stored users are unchanged.
C2_DuplicateEmail ==
    [][(resp'.handler = "signupUser" /\ resp'.args.email \in StoredEmails)
         => /\ IsDuplicateEmail(resp'.out)
            /\ users' = users]_vars

\* C2 happens: a second registration of a stored email has been answered.
C2_Witness ==
    /\ resp.handler = "signupUser"
    /\ resp.out.type = "throw"
    /\ resp.args.email \in StoredEmails
    /\ Len(users) = 1

\* C3: a failed login for an unregistered email and a failed login for a
\* registered email (a wrong password) have the same outcome: kind, status
\* and message.
C3_LoginFailuresAlike ==
    \A f \in failedLogins, g \in failedLogins :
        (~f.registered /\ g.registered) => f.out = g.out

\* C3 happens: both kinds of failed login have been seen.
C3_Witness ==
    /\ \E f \in failedLogins : ~f.registered
    /\ \E g \in failedLogins : g.registered

\* C4: login with the password a stored user's digest was made from returns
\* a token, signed with the configured key, whose claims are that user's id
\* (as sub), email and name.
C4_LoginToken ==
    resp.handler = "login" =>
        \A i \in 1..Len(users) :
            (/\ users[i].email = resp.args.email
             /\ users[i].password = Hash(resp.args.password, users[i].password.salt))
            => /\ resp.out.type = "return"
               /\ resp.out.value.data.accessToken.sig = SigningKey
               /\ resp.out.value.data.accessToken.payload =
                    [sub |-> users[i].id, email |-> users[i].email,
                     name |-> users[i].name]

\* C4 happens: the second of two users, with passwords of their own, has
\* logged in.
C4_Witness ==
    /\ resp.handler = "login"
    /\ resp.out.type = "return"
    /\ Len(users) = 2
    /\ users[1].password.digest[3] # users[2].password.digest[3]
    /\ resp.args.email = users[2].email

\* C5: createDraft with an authorEmail no stored user has fails with
\* AuthorNotFound and leaves the stored posts (and the id counter) unchanged.
C5_AuthorNotFound ==
    [][(/\ resp'.handler = "createPostDraft"
        /\ VerifyAsync(resp'.cred)
        /\ resp'.args.authorEmail \notin StoredEmails)
         => /\ IsAuthorNotFound(resp'.out)
            /\ posts' = posts
            /\ nextPostId' = nextPostId]_vars

\* C5 happens: a draft for an unregistered author has been refused while a
\* post was stored.
C5_Witness ==
    /\ resp.handler = "createPostDraft"
    /\ Ran
    /\ resp.args.authorEmail \notin StoredEmails
    /\ IsAuthorNotFound(resp.out)
    /\ DOMAIN posts # {}

\* C6: publish of a stored post, draft or published, succeeds, returns the
\* post and leaves it published; on a published post it changes nothing.
C6_PublishIdempotent ==
    [][(/\ resp'.handler = "publishPost"
        /\ VerifyAsync(resp'.cred)
        /\ Number(resp'.args.id) \in DOMAIN posts)
         => LET id == Number(resp'.args.id)
            IN /\ resp'.out.type = "return"
               /\ id \in DOMAIN posts'
               /\ posts'[id].published
               /\ resp'.out.value = posts'[id]
               /\ posts'[id] = [posts[id] EXCEPT !.published = TRUE]
               /\ posts[id].published => posts' = posts]_vars

\* C6 happens: a published post has been published again.
C6_Witness ==
    /\ resp.handler = "publishPost"
    /\ Ran
    /\ resp.found # NoPost
    /\ resp.found.published
    /\ resp.out.type = "return"

C8_UpdateFrame ==
    [][(/\ resp'.handler = "updatePost"
        /\ VerifyAsync(resp'.cred)
        /\ resp'.out.type = "return")
         => LET id == Number(resp'.args.id)
                body == resp'.args.body
            IN /\ id \in DOMAIN posts /\ id \in DOMAIN posts'
               /\ \A f \in DOMAIN posts[id] :
                    posts'[id][f] = IF f \in DOMAIN body THEN body[f]
                                    ELSE posts[id][f]
               /\ DOMAIN body \subseteq {"title", "content"}]_vars

\* C8 happens: an update with only a title has changed the title of a post
\* whose content is not empty.
C8_Witness ==
    /\ resp.handler = "updatePost"
    /\ Ran
    /\ resp.out.type = "return"
    /\ DOMAIN resp.args.body = {"title"}
    /\ resp.found.title # resp.args.body.title
    /\ posts[Number(resp.args.id)].content = resp.found.content
    /\ resp.found.content # <<>>

\* C9: an id whose delete was confirmed is not stored in any later state,
\* and every getById of it fails with PostNotFound.
C9_DeletedStaysDeleted ==
    /\ deleted \cap DOMAIN posts = {}
    /\ (resp.handler = "getPostById" /\ Ran /\ Number(resp.args.id) \in deleted)
         => IsPostNotFound(resp.out)

\* C9 happens: getById of a deleted id has been answered after a later post
\* was created.
C9_Witness ==
    /\ resp.handler = "getPostById"
    /\ Ran
    /\ Number(resp.args.id) \in deleted
    /\ IsPostNotFound(resp.out)
    /\ \E id \in DOMAIN posts : id > Number(resp.args.id)

\* The posts a search for searchString is to return, in id order: all of
\* them without one, else those whose title or content holds it.
Matching(ps, query) ==
    LET ids == {i \in DOMAIN ps :
                  "searchString" \in DOMAIN query
                    => \/ Contains(ps[i].title, query.searchString)
                       \/ Contains(ps[i].content, query.searchString)}
        rank(i) == Cardinality({j \in ids : j < i})
    IN [k \in 1..Cardinality(ids) |-> ps[CHOOSE i \in ids : rank(i) = k - 1]]

\* Offset/limit over a list: the elements after the first offset, limit of
\* them at most.
Window(list, query) ==
    LET offset == IF "skip" \in DOMAIN query THEN Number(query.skip) ELSE 0
        limit == IF "take" \in DOMAIN query THEN Number(query.take) ELSE Len(list)
        last == IF offset + limit < Len(list) THEN offset + limit ELSE Len(list)
    IN [k \in 1..(last - offset) |-> list[offset + k]]

\* C10: list returns the skip/take window (0 included) of the posts whose
\* title or content contains searchString, and of all posts without one.
C10_ListWindow ==
    (resp.handler = "getPosts" /\ Ran)
        => /\ resp.out.type = "return"
           /\ resp.out.value = Window(Matching(posts, resp.args), resp.args)

\* C10 happens: a search with skip 1 and take 0 has returned nothing out of
\* two matching posts, where a third post does not match.
C10_Witness ==
    /\ resp.handler = "getPosts"
    /\ Ran
    /\ "searchString" \in DOMAIN resp.args
    /\ "take" \in DOMAIN resp.args /\ Number(resp.args.take) = 0
    /\ "skip" \in DOMAIN resp.args /\ Number(resp.args.skip) = 1
    /\ Len(Matching(posts, resp.args)) = 2
    /\ Cardinality(DOMAIN posts) = 3
    /\ resp.out.value = <<>>

\* The handlers that take the id of a post.
ByIdHandlers == {"getPostById", "publishPost", "updatePost", "deletePost"}

\* C11: getById, publish, update and delete of an id that no stored post has
\* each fail with PostNotFound, and the step leaves the stored users and
\* posts (and the id counter) as they were.
C11_AbsentIdNotFound ==
    [][(/\ resp'.handler \in ByIdHandlers
        /\ VerifyAsync(resp'.cred)
        /\ Number(resp'.args.id) \notin DOMAIN posts)
         => /\ IsPostNotFound(resp'.out)
            /\ UNCHANGED <<users, posts, nextPostId>>]_vars

\* C11 happens: an update of an id that was deleted has been refused while
\* another post is stored.
C11_Witness ==
    /\ resp.handler = "updatePost"
    /\ Ran
    /\ Number(resp.args.id) \notin DOMAIN posts
    /\ Number(resp.args.id) \in deleted
    /\ IsPostNotFound(resp.out)
    /\ posts # <<>>

WritingHandlers == {"publishPost", "updatePost", "deletePost"}

\* C19: a successful publish, update or delete of an id leaves every stored
\* user and every post of another id as it was, and neither stores nor
\* removes a post of another id.
C19_OnlyThatPost ==
    [][(/\ resp'.handler \in WritingHandlers
        /\ VerifyAsync(resp'.cred)
        /\ resp'.out.type = "return")
         => LET id == Number(resp'.args.id)
            IN /\ users' = users
               /\ \A other \in (DOMAIN posts \cup DOMAIN posts') \ {id} :
                    /\ other \in DOMAIN posts
                    /\ other \in DOMAIN posts'
                    /\ posts'[other] = posts[other]]_vars

\* C19 happens: a draft has been published while another post, still a
\* draft, is stored.
C19_Witness ==
    /\ resp.handler = "publishPost"
    /\ Ran
    /\ resp.out.type = "return"
    /\ ~resp.found.published
    /\ \E other \in DOMAIN posts :
         other # Number(resp.args.id) /\ ~posts[other].published

\* The handlers that only read.
ReadingHandlers == {"login", "getCurrentUser", "getPostById", "getPosts"}

\* C20: a step that answers login, GET /me, getById or list, with a result
\* or with an error, leaves the stored users and posts (and the id counter)
\* as they were; and every step of the controller keeps every stored user
\* record, at its place.
C20_ReadsAndUsersKept ==
    [][/\ resp'.handler \in ReadingHandlers
            => UNCHANGED <<users, posts, nextPostId>>
       /\ Len(users') >= Len(users)
       /\ \A i \in 1..Len(users) : users'[i] = users[i]]_vars

\* C20 happens: a login has been refused while two users and a post are
\* stored.
C20_Witness ==
    /\ resp.handler = "login"
    /\ resp.out.type = "throw"
    /\ Len(users) = 2
    /\ posts # <<>>

\* C17: a register with an email that no stored user has succeeds, stores
\* the user, and returns the status and a data object of exactly id, email
\* and name, those of the stored user: no field holds the password or its
\* hash.
C17_RegisterPublicUser ==
    [][(/\ resp'.handler = "signupUser"
        /\ resp'.args.email \notin StoredEmails)
         => /\ resp'.out.type = "return"
            /\ DOMAIN resp'.out.value = {"statusCode", "data"}
            /\ Len(users') = Len(users) + 1
            /\ LET data == resp'.out.value.data
                   user == users'[Len(users')]
               IN /\ DOMAIN data = {"id", "email", "name"}
                  /\ data.id = user.id
                  /\ data.email = user.email /\ data.email = resp'.args.email
                  /\ data.name = user.name /\ data.name = resp'.args.name
                  /\ user.password = Hash(resp'.args.password, user.password.salt)]_vars

\* C17 happens: a second register, with another email and another password,
\* has succeeded.
C17_Witness ==
    /\ resp.handler = "signupUser"
    /\ resp.out.type = "return"
    /\ Len(users) = 2
    /\ resp.out.value.data.id = 2
    /\ users[1].email # users[2].email
    /\ users[1].password.digest # users[2].password.digest

\* C18: from the empty store, while the requests handled are the first ones
\* of register(a@x.com, pw1), login(a@x.com, pw1), createDraft(T, C,
\* a@x.com) with the token of that login, publish of the id that createDraft
\* returned, getById of that id, the last one handled succeeded; createDraft
\* returned a post, and getById returned a post with title T, content C and
\* published = true.
C18_Scenario ==
    (scenario.step >= 1 /\ ~Idle)
      => /\ resp.out.type = "return"
         /\ scenario.step = 2 => scenario.token = resp.out.value.data.accessToken
         /\ scenario.step = 3
              => /\ "data" \in DOMAIN resp.out.value
                 /\ resp.out.value.data.id = scenario.id
                 /\ ~resp.out.value.data.published
         /\ scenario.step = 4
              => resp.out.value = posts[scenario.id] /\ resp.out.value.published
         /\ scenario.step = 5
              => /\ resp.out.value.data.title = <<"T">>
                 /\ resp.out.value.data.content = <<"C">>
                 /\ resp.out.value.data.published = TRUE

\* C18 happens: the fifth request of the scenario, getById, has been
\* answered with the published post.
C18_Witness ==
    /\ scenario.step = 5
    /\ resp.handler = "getPostById"
    /\ resp.out.type = "return"
    /\ resp.out.value.data.published
    /\ resp.out.value.data.id = scenario.id

\* The outcome is the framework's or the handler's opaque server failure.
IsInternalFailure(out) == out.type \in {"throw", "uncaught"} /\ out.status = 500

\* C14: every register ends in one of: a result carrying the public user, a
\* DuplicateEmail, an InternalFailure; so also when the repository rejects
\* with an error that is not the unique violation.
C14_RegisterOutcomes ==
    resp.handler = "signupUser"
      => \/ /\ resp.out.type = "return"
            /\ "data" \in DOMAIN resp.out.value
         \/ IsDuplicateEmail(resp.out)
         \/ IsInternalFailure(resp.out)

\* C15: every createDraft that passed the guard ends in one of: a result
\* carrying the created post, an AuthorNotFound, an InternalFailure.
C15_CreateDraftOutcomes ==
    (resp.handler = "createPostDraft" /\ Ran)
      => \/ /\ resp.out.type = "return"
            /\ "data" \in DOMAIN resp.out.value
         \/ IsAuthorNotFound(resp.out)
         \/ IsInternalFailure(resp.out)

\* C12: a publish, update or delete that passed its existence check and
\* whose write finds the record gone, deleted by a concurrent request, ends
\* as PostNotFound or another not-found outcome (a 404), and never as a
\* failure that no handler caught.
C12_LostWriteIsNotFound ==
    \A p \in Procs :
        (/\ flight[p].pc = "done"
         /\ flight[p].handler \in WritingHandlers
         /\ flight[p].missing)
          => /\ flight[p].out.type = "throw"
             /\ flight[p].out.status = 404

\* C13: two publish requests of one id whose checks both found the post
\* both return the post, published, whatever the order of their checks and
\* writes, and the post is stored with published = true.
C13_ConcurrentPublish ==
    \A p, q \in Procs :
        (/\ p # q
         /\ flight[p].pc = "done" /\ flight[q].pc = "done"
         /\ flight[p].handler = "publishPost" /\ flight[q].handler = "publishPost"
         /\ flight[p].args = flight[q].args
         /\ flight[p].found # NoPost /\ flight[q].found # NoPost)
          => /\ flight[p].out.type = "return" /\ flight[p].out.value.published
             /\ flight[q].out.type = "return" /\ flight[q].out.value.published
             /\ flight[p].found.id \in DOMAIN posts
             /\ posts[flight[p].found.id].published

\* C13 happens: both requests checked the draft before either wrote, and
\* both have ended.
C13_Witness ==
    /\ flight["p"].pc = "done" /\ flight["q"].pc = "done"
    /\ flight["p"].handler = "publishPost" /\ flight["q"].handler = "publishPost"
    /\ flight["p"].args = flight["q"].args
    /\ flight["p"].found # NoPost /\ ~flight["p"].found.published
    /\ flight["q"].found # NoPost /\ ~flight["q"].found.published
    /\ flight["p"].out.type = "return" /\ flight["q"].out.type = "return"

====
